---- MODULE Spec2Model ----
(***************************************************************************)
(* A model of the MarkItDown API (src/api.py): the job store with its two  *)
(* backends, the selection of the backend at import, the job lifecycle     *)
(* (convert_file / convert_url, process_file / process_url,                *)
(* get_job_status), and the streaming pipeline.                            *)
(*                                                                         *)
(* Threads.  The request handlers are `async def` without an await: they   *)
(* run one at a time on the event loop.  process_file and process_url are  *)
(* plain functions handed to BackgroundTasks, which runs them in worker    *)
(* threads after the response was sent; their statements interleave with   *)
(* the statements of the handler the event loop is running.                *)
(*                                                                         *)
(* Strings.  A path or URL is the sequence of its "/"-separated segments   *)
(* ("./a.txt" is <<".", "a.txt">>); a markdown text is a sequence of runs  *)
(* [c |-> class of character, n |-> how many].                             *)
(***************************************************************************)
EXTENDS Integers, Sequences, FiniteSets, TLC

VARIABLES
    storage,        \* the module-level `storage`: "unset", "redis" or "memory"
    probe,          \* what the selection at import saw: "none", "ok", "ctor_failed", "ping_false"
    redis_up,       \* whether the Redis server answers (environment)
    now,            \* time.time()
    data,           \* InMemoryJobStorage.data
    expiry_times,   \* InMemoryJobStorage.expiry_times
    rdata,          \* the Redis server's keys
    rexpiry,        \* the Redis server's expiry of each key
    next_job,       \* the next fresh job id (uuid.uuid4())
    job_in,         \* per job: the request that created it
    loop,           \* the handler the event loop is running
    task,           \* per job: the background task's position
    resp,           \* the response the last step sent, NoResp when it sent none
    sets,           \* per job: the records stored under job:<id>, in order, and the
                    \* time of the last of these writes (history)
    tmp,            \* per job: the temporary input file ("none", "present", "removed", "left")
    st_last,        \* store exercise: per key, the latest set call (history)
    st_ret,         \* store exercise: the get call of the last step and what it returned
    stream,         \* stream_url_conversion: the generator's position and locals
    out,            \* the lines the generator has yielded, in order
    call            \* a call of split_markdown_into_paragraphs or of
                    \* create_smart_batches: its arguments, locals and result

vars == <<storage, probe, redis_up, now, data, expiry_times, rdata, rexpiry,
          next_job, job_in, loop, task, resp, sets, tmp, st_last, st_ret, stream, out,
          call>>

(* the variables of the job service, and the others *)
svc_vars == <<storage, probe, redis_up, now, data, expiry_times, rdata, rexpiry,
              next_job, job_in, loop, task, resp, sets, tmp>>
exercise_vars == <<st_last, st_ret, stream, out, call>>

----------------------------------------------------------------------------
(* Bounds of the model *)

MaxJobs == 1
MaxTicks == 4

(* Program constants *)

JOB_EXPIRY == 86400

(* The clock advances in steps of a little more than half a TTL: one step  *)
(* leaves a fresh record live, two steps expire it.                        *)
TickStep == (JOB_EXPIRY \div 2) + 1
Horizon == MaxTicks * TickStep

JobIds == 1..MaxJobs

(* Python's None where an int is expected (the default of `expiry`) *)
None == 0 - 1

----------------------------------------------------------------------------
(* Python helpers *)

Put(m, k, v) == [x \in (DOMAIN m) \cup {k} |-> IF x = k THEN v ELSE m[x]]
Del(m, k) == [x \in (DOMAIN m) \ {k} |-> m[x]]
EmptyMap == [x \in {} |-> 0]

(* `if expiry:` -- None and 0 are both false *)
Truthy(x) == x # None /\ x # 0

(* json.dumps / json.loads of a dict of strings *)
json_dumps(obj) == [json |-> obj]
json_loads(s) == s.json

(* os.path.basename: what follows the last "/" *)
basename(p) == <<p[Len(p)]>>

(* os.path.join(a, b): an absolute b replaces a *)
path_join(a, b) == IF Len(b) > 1 /\ b[1] = "" THEN b ELSE a \o b

(* `x or "url_content"`: the empty string is false *)
OrUrlContent(s) == IF s = <<"">> THEN <<"url_content">> ELSE s

temp_dir == <<"", "tmp", "tmpdir">>

(* The requests the model draws *)
FileNames == {<<"a.txt">>, <<".", "a.txt">>}
Urls == {<<"http:", "", "h", "doc.pdf">>, <<"http:", "", "h", "">>}

MARKDOWN == "markdown text"
ERROR == "conversion error"
STORE_ERROR == "connection refused"

----------------------------------------------------------------------------
(* InMemoryJobStorage *)

(* line 73 *)
MemSetData(d, key, value) == Put(d, key, value)

(* lines 74-75 *)
MemSetExpiry(et, key, expiry, t) ==
    IF Truthy(expiry) THEN Put(et, key, t + expiry) ELSE et

(* line 80 with the comparison turned round *)
MemExpired_Reversed(et, key, t) == key \in DOMAIN et /\ t < et[key]

(* line 80 *)
MemExpired(et, key, t) == key \in DOMAIN et /\ t > et[key]

(* RedisJobStorage: SET key value EX expiry, GET key, on the server *)
RedisLive(key, t) ==
    key \in DOMAIN rdata /\ (key \in DOMAIN rexpiry => t < rexpiry[key])

(* line 54 without ex=expiry: SET key value *)
RedisSetExpiry_NoEx(et, key, expiry, t) == Del(et, key)

RedisSetExpiry(et, key, expiry, t) ==
    IF expiry = None THEN Del(et, key) ELSE Put(et, key, t + expiry)

----------------------------------------------------------------------------
(* Backend selection, lines 99-141 *)

SelectBackend(ctor_ok, ping) == IF ctor_ok /\ ping THEN "redis" ELSE "memory"

ProbeResult(ctor_ok, ping) ==
    IF ~ctor_ok THEN "ctor_failed" ELSE IF ~ping THEN "ping_false" ELSE "ok"

(* the client chosen again at each call, by whether Redis answers now *)
UseRedis_Reprobe == redis_up

(* redis_client is storage.client, or the DummyRedisClient around storage *)
UseRedis == storage = "redis"

----------------------------------------------------------------------------
(* Job records *)

ProcessingRecord(filename) == [status |-> "processing", filename |-> filename]

CompletedRecord(markdown, filename) ==
    [status |-> "completed", markdown |-> markdown, filename |-> filename]

(* a failed record that carries an (empty) result as well *)
FailedRecord_WithResult(error) == [status |-> "failed", error |-> error, markdown |-> ""]

FailedRecord(error) == [status |-> "failed", error |-> error]

(* the filename process_file / process_url put in the completed record *)
CompletedFilename(in) ==
    IF in.kind = "file" THEN basename(path_join(temp_dir, in.arg))
    ELSE OrUrlContent(basename(in.arg))

(* the filename convert_file / convert_url put in the initial record *)
InitialFilename(in) ==
    IF in.kind = "file" THEN in.arg ELSE OrUrlContent(basename(in.arg))

----------------------------------------------------------------------------
NoBody == [status |-> "none"]
NoVal == json_dumps(NoBody)
NoJob == [kind |-> "none", arg |-> <<>>]
Idle == [op |-> "idle", pc |-> "idle", job |-> 0, val |-> NoVal, t0 |-> 0]
NoTask == [pc |-> "none", val |-> NoVal]
NoResp == [op |-> "none", kind |-> "none", job |-> 0, body |-> NoBody,
           via |-> "none", t0 |-> 0]
NoRet == [key |-> 0, value |-> "", t |-> 0]
NoStream == [pc |-> "idle", url |-> <<>>, res |-> "none", text |-> <<>>,
             batches |-> <<>>, chunks |-> <<>>, idx |-> 0]
NoCall == [fn |-> "none"]

Init ==
    /\ storage = "unset"
    /\ probe = "none"
    /\ redis_up \in BOOLEAN
    /\ now = 0
    /\ data = EmptyMap
    /\ expiry_times = EmptyMap
    /\ rdata = EmptyMap
    /\ rexpiry = EmptyMap
    /\ next_job = 1
    /\ job_in = [j \in JobIds |-> NoJob]
    /\ loop = Idle
    /\ task = [j \in JobIds |-> NoTask]
    /\ resp = NoResp
    /\ sets = [j \in JobIds |-> [vals |-> <<>>, at |-> 0]]
    /\ tmp = [j \in JobIds |-> "none"]
    /\ st_last = EmptyMap
    /\ st_ret = NoRet
    /\ stream = NoStream
    /\ out = <<>>
    /\ call = NoCall

(* The write log: `value` was stored under job:<j> at time t *)
Logged(j, value, t) ==
    [sets EXCEPT ![j] = [vals |-> Append(@.vals, json_loads(value)), at |-> t]]

(* ... and a local set computed the expiry of what it stored at time t (line 75) *)
Stamped(j, t) == [sets EXCEPT ![j].at = t]

----------------------------------------------------------------------------
(* Environment *)

(* The clock stops at Horizon.  A job is created only while the end of its   *)
(* initial record's TTL lies before Horizon, so that the model's clock can   *)
(* reach it.                                                                 *)
Tick ==
    /\ now < Horizon
    /\ loop.op = "convert" => now + TickStep + JOB_EXPIRY < Horizon
    /\ now' = now + TickStep
    /\ resp' = NoResp
    /\ UNCHANGED <<storage, probe, redis_up, data, expiry_times, rdata, rexpiry,
                   next_job, job_in, loop, task, sets, tmp, exercise_vars>>

RedisFlip ==
    /\ redis_up' = ~redis_up
    /\ resp' = NoResp
    /\ UNCHANGED <<storage, probe, now, data, expiry_times, rdata, rexpiry,
                   next_job, job_in, loop, task, sets, tmp, exercise_vars>>

(* Import of the module: lines 99-141 *)
Startup ==
    /\ storage = "unset"
    /\ \E ctor_ok \in BOOLEAN :
          /\ storage' = SelectBackend(ctor_ok, redis_up)
          /\ probe' = ProbeResult(ctor_ok, redis_up)
    /\ resp' = NoResp
    /\ UNCHANGED <<redis_up, now, data, expiry_times, rdata, rexpiry,
                   next_job, job_in, loop, task, sets, tmp, exercise_vars>>

----------------------------------------------------------------------------
(* The handlers, on the event loop *)

Response(op, kind, j, body, via) ==
    [op |-> op, kind |-> kind, job |-> j, body |-> body, via |-> via,
     t0 |-> loop.t0]

CanCreate ==
    /\ storage # "unset"
    /\ loop = Idle
    /\ next_job <= MaxJobs
    /\ now + JOB_EXPIRY < Horizon

(* convert_file, lines 374-385 and 403-406: the id, the temporary file *)
convert_file(filename) ==
    /\ CanCreate
    /\ next_job' = next_job + 1
    /\ job_in' = [job_in EXCEPT ![next_job] = [kind |-> "file", arg |-> filename]]
    /\ \E saved \in BOOLEAN :
          IF saved
          THEN /\ loop' = [op |-> "convert", pc |-> "set", job |-> next_job,
                           val |-> json_dumps(ProcessingRecord(filename)), t0 |-> now]
               /\ tmp' = [tmp EXCEPT ![next_job] = "present"]
               /\ resp' = NoResp
          ELSE /\ loop' = Idle
               /\ tmp' = [tmp EXCEPT ![next_job] = "removed"]
               /\ resp' = [Response("convert", "500", next_job, NoBody, "none")
                             EXCEPT !.t0 = now]
    /\ UNCHANGED <<storage, probe, redis_up, now, data, expiry_times, rdata, rexpiry,
                   task, sets, exercise_vars>>

(* convert_url, lines 409-418 *)
convert_url(url) ==
    /\ CanCreate
    /\ next_job' = next_job + 1
    /\ job_in' = [job_in EXCEPT ![next_job] = [kind |-> "url", arg |-> url]]
    /\ loop' = [op |-> "convert", pc |-> "set", job |-> next_job,
                val |-> json_dumps(ProcessingRecord(OrUrlContent(basename(url)))),
                t0 |-> now]
    /\ resp' = NoResp
    /\ UNCHANGED <<storage, probe, redis_up, now, data, expiry_times, rdata, rexpiry,
                   task, sets, tmp, exercise_vars>>

(* redis_client.set(f"job:{job_id}", ..., ex=JOB_EXPIRY), lines 392 and 419;   *)
(* on Redis one command, which raises when the server is away (lines 403-406,  *)
(* 430-432); on the local backend line 73                                      *)
LoopSet ==
    /\ loop.pc = "set"
    /\ IF UseRedis
       THEN IF redis_up
            THEN /\ rdata' = Put(rdata, loop.job, loop.val)
                 /\ rexpiry' = RedisSetExpiry(rexpiry, loop.job, JOB_EXPIRY, now)
                 /\ sets' = Logged(loop.job, loop.val, now)
                 /\ loop' = [loop EXCEPT !.pc = "return"]
                 /\ resp' = NoResp
                 /\ UNCHANGED <<data, tmp>>
            ELSE /\ loop' = Idle
                 /\ resp' = Response("convert", "500", loop.job, NoBody, "redis")
                 /\ tmp' = [tmp EXCEPT ![loop.job] =
                               IF @ = "present" THEN "removed" ELSE @]
                 /\ UNCHANGED <<data, rdata, rexpiry, sets>>
       ELSE /\ data' = MemSetData(data, loop.job, loop.val)
            /\ sets' = Logged(loop.job, loop.val, now)
            /\ loop' = [loop EXCEPT !.pc = "set_expiry"]
            /\ resp' = NoResp
            /\ UNCHANGED <<rdata, rexpiry, tmp>>
    /\ UNCHANGED <<storage, probe, redis_up, now, expiry_times, next_job, job_in,
                   task, exercise_vars>>

(* InMemoryJobStorage.set, lines 74-75 *)
LoopSetExpiry ==
    /\ loop.pc = "set_expiry"
    /\ expiry_times' = MemSetExpiry(expiry_times, loop.job, JOB_EXPIRY, now)
    /\ sets' = Stamped(loop.job, now)
    /\ loop' = [loop EXCEPT !.pc = "return"]
    /\ resp' = NoResp
    /\ UNCHANGED <<storage, probe, redis_up, now, data, rdata, rexpiry, next_job,
                   job_in, task, tmp, exercise_vars>>

(* background_tasks.add_task(...) and the return of the job id, lines 395-402 *)
LoopReturn ==
    /\ loop.pc = "return"
    /\ task' = [task EXCEPT ![loop.job] = [pc |-> "queued", val |-> NoVal]]
    /\ resp' = Response("convert", "job_id", loop.job, NoBody, storage)
    /\ loop' = Idle
    /\ UNCHANGED <<storage, probe, redis_up, now, data, expiry_times, rdata, rexpiry,
                   next_job, job_in, sets, tmp, exercise_vars>>

(* get_job_status, line 453: the request arrives *)
get_job_status(j) ==
    /\ storage # "unset"
    /\ loop = Idle
    /\ loop' = [op |-> "get", pc |-> "get", job |-> j, val |-> NoVal, t0 |-> now]
    /\ resp' = NoResp
    /\ UNCHANGED <<storage, probe, redis_up, now, data, expiry_times, rdata, rexpiry,
                   next_job, job_in, task, sets, tmp, exercise_vars>>

(* what get_job_status answers for the value the store gave, lines 457-460 *)
StatusResponse(j, found, value, via) ==
    IF found THEN Response("get", "record", j, json_loads(value), via)
    ELSE Response("get", "404", j, NoBody, via)

(* redis_client.get, line 455: on Redis one command; on the local backend line 79 *)
LoopGet ==
    /\ loop.pc = "get"
    /\ IF UseRedis
       THEN /\ resp' = IF redis_up
                       THEN StatusResponse(loop.job, RedisLive(loop.job, now),
                                IF loop.job \in DOMAIN rdata THEN rdata[loop.job] ELSE NoVal,
                                "redis")
                       ELSE Response("get", "500", loop.job, NoBody, "redis")
            /\ loop' = Idle
       ELSE IF loop.job \in DOMAIN data
            THEN /\ loop' = [loop EXCEPT !.pc = "check"]
                 /\ resp' = NoResp
            ELSE /\ loop' = Idle
                 /\ resp' = StatusResponse(loop.job, FALSE, NoVal, "memory")
    /\ UNCHANGED <<storage, probe, redis_up, now, data, expiry_times, rdata, rexpiry,
                   next_job, job_in, task, sets, tmp, exercise_vars>>

(* InMemoryJobStorage.get, line 80 *)
LoopGetCheck ==
    /\ loop.pc = "check"
    /\ loop' = [loop EXCEPT !.pc =
                   IF MemExpired(expiry_times, loop.job, now) THEN "del_data" ELSE "ret_data"]
    /\ resp' = NoResp
    /\ UNCHANGED <<storage, probe, redis_up, now, data, expiry_times, rdata, rexpiry,
                   next_job, job_in, task, sets, tmp, exercise_vars>>

(* line 82: del self.data[key], a KeyError when the key is gone *)
LoopGetDelData ==
    /\ loop.pc = "del_data"
    /\ IF loop.job \in DOMAIN data
       THEN /\ data' = Del(data, loop.job)
            /\ loop' = [loop EXCEPT !.pc = "del_expiry"]
            /\ resp' = NoResp
       ELSE /\ data' = data
            /\ loop' = Idle
            /\ resp' = Response("get", "KeyError", loop.job, NoBody, "memory")
    /\ UNCHANGED <<storage, probe, redis_up, now, expiry_times, rdata, rexpiry,
                   next_job, job_in, task, sets, tmp, exercise_vars>>

(* lines 83-84: del self.expiry_times[key]; return None *)
LoopGetDelExpiry ==
    /\ loop.pc = "del_expiry"
    /\ IF loop.job \in DOMAIN expiry_times
       THEN /\ expiry_times' = Del(expiry_times, loop.job)
            /\ resp' = StatusResponse(loop.job, FALSE, NoVal, "memory")
       ELSE /\ expiry_times' = expiry_times
            /\ resp' = Response("get", "KeyError", loop.job, NoBody, "memory")
    /\ loop' = Idle
    /\ UNCHANGED <<storage, probe, redis_up, now, data, rdata, rexpiry,
                   next_job, job_in, task, sets, tmp, exercise_vars>>

(* line 85: return self.data[key] *)
LoopGetReturn ==
    /\ loop.pc = "ret_data"
    /\ resp' = IF loop.job \in DOMAIN data
               THEN StatusResponse(loop.job, TRUE, data[loop.job], "memory")
               ELSE Response("get", "KeyError", loop.job, NoBody, "memory")
    /\ loop' = Idle
    /\ UNCHANGED <<storage, probe, redis_up, now, data, expiry_times, rdata, rexpiry,
                   next_job, job_in, task, sets, tmp, exercise_vars>>

----------------------------------------------------------------------------
(* The background tasks, in worker threads: process_file and process_url *)

(* lines 183-190 and 193-198, 215-222 and 225-230: the converter returns  *)
(* or raises, and the record to store is built                            *)
(* a failure that re-queues the job instead of failing it *)
JobResult_Requeue(in, converted) ==
    IF converted THEN CompletedRecord(MARKDOWN, CompletedFilename(in))
    ELSE ProcessingRecord(InitialFilename(in))

JobResult(in, converted) ==
    IF converted THEN CompletedRecord(MARKDOWN, CompletedFilename(in))
    ELSE FailedRecord(ERROR)

(* the task without its finally *)
AfterSet_NoCleanup(j, pc) == pc

(* what follows the set: process_file's finally (lines 201-210), which      *)
(* process_url has not                                                      *)
AfterSet(j, pc) ==
    IF job_in[j].kind = "file"
    THEN (IF pc = "raised" THEN "cleanup_raised" ELSE "cleanup")
    ELSE pc

TaskConvert(j) ==
    /\ task[j].pc = "queued"
    /\ \E converted \in BOOLEAN :
          task' = [task EXCEPT ![j] =
                      [pc |-> IF converted THEN "try_set" ELSE "exc_set",
                       val |-> json_dumps(JobResult(job_in[j], converted))]]
    /\ resp' = NoResp
    /\ UNCHANGED <<storage, probe, redis_up, now, data, expiry_times, rdata, rexpiry,
                   next_job, job_in, loop, sets, tmp, exercise_vars>>

(* redis_client.set at lines 191 and 223 (in the try) or 199 and 231 (in the *)
(* except).  On Redis one command: when it raises in the try, the except     *)
(* stores a failed record; when it raises in the except, the task ends with  *)
(* the exception.  On the local backend line 73.                             *)
TaskSet(j) ==
    /\ task[j].pc \in {"try_set", "exc_set"}
    /\ IF UseRedis
       THEN IF redis_up
            THEN /\ rdata' = Put(rdata, j, task[j].val)
                 /\ rexpiry' = RedisSetExpiry(rexpiry, j, JOB_EXPIRY, now)
                 /\ sets' = Logged(j, task[j].val, now)
                 /\ task' = [task EXCEPT ![j] = [pc |-> AfterSet(j, "done"), val |-> NoVal]]
                 /\ data' = data
            ELSE /\ task' = [task EXCEPT ![j] =
                                IF @.pc = "try_set"
                                THEN [pc |-> "exc_set",
                                      val |-> json_dumps(FailedRecord(STORE_ERROR))]
                                ELSE [pc |-> AfterSet(j, "raised"), val |-> NoVal]]
                 /\ UNCHANGED <<data, rdata, rexpiry, sets>>
       ELSE /\ data' = MemSetData(data, j, task[j].val)
            /\ sets' = Logged(j, task[j].val, now)
            /\ task' = [task EXCEPT ![j] = [pc |-> "set_expiry", val |-> NoVal]]
            /\ UNCHANGED <<rdata, rexpiry>>
    /\ resp' = NoResp
    /\ UNCHANGED <<storage, probe, redis_up, now, expiry_times, next_job, job_in,
                   loop, tmp, exercise_vars>>

(* InMemoryJobStorage.set, lines 74-75 *)
TaskSetExpiry(j) ==
    /\ task[j].pc = "set_expiry"
    /\ expiry_times' = MemSetExpiry(expiry_times, j, JOB_EXPIRY, now)
    /\ sets' = Stamped(j, now)
    /\ task' = [task EXCEPT ![j] = [pc |-> AfterSet(j, "done"), val |-> NoVal]]
    /\ resp' = NoResp
    /\ UNCHANGED <<storage, probe, redis_up, now, data, rdata, rexpiry, next_job,
                   job_in, loop, tmp, exercise_vars>>

(* process_file's finally, lines 201-210: the removal succeeds, or fails and *)
(* is logged                                                                 *)
TaskCleanup(j) ==
    /\ task[j].pc \in {"cleanup", "cleanup_raised"}
    /\ \E removed \in BOOLEAN :
          tmp' = [tmp EXCEPT ![j] = IF removed THEN "removed" ELSE "left"]
    /\ task' = [task EXCEPT ![j] =
                   [pc |-> IF @.pc = "cleanup" THEN "done" ELSE "raised", val |-> NoVal]]
    /\ resp' = NoResp
    /\ UNCHANGED <<storage, probe, redis_up, now, data, expiry_times, rdata, rexpiry,
                   next_job, job_in, loop, sets, exercise_vars>>

----------------------------------------------------------------------------
LoopStep ==
    \/ LoopSet
    \/ LoopSetExpiry
    \/ LoopReturn
    \/ LoopGet
    \/ LoopGetCheck
    \/ LoopGetDelData
    \/ LoopGetDelExpiry
    \/ LoopGetReturn

TaskStep ==
    \E j \in JobIds :
        \/ TaskConvert(j)
        \/ TaskSet(j)
        \/ TaskSetExpiry(j)
        \/ TaskCleanup(j)

Next ==
    \/ Startup
    \/ Tick
    \/ RedisFlip
    \/ \E filename \in FileNames : convert_file(filename)
    \/ \E url \in Urls : convert_url(url)
    \/ \E j \in JobIds : get_job_status(j)
    \/ LoopStep
    \/ TaskStep

Spec == Init /\ [][Next]_vars

(* The event loop runs the handler it started, the thread pool runs the   *)
(* tasks it was given, the converter returns or raises, and time passes.  *)
FairSpec ==
    /\ Init
    /\ [][Next]_vars
    /\ WF_vars(LoopStep)
    /\ \A j \in JobIds : WF_vars(TaskConvert(j) \/ TaskSet(j) \/ TaskSetExpiry(j) \/ TaskCleanup(j))
    /\ WF_vars(Tick)

----------------------------------------------------------------------------
(* InMemoryJobStorage used directly, one call at a time: set and get with   *)
(* every key, value and expiry of a small range                            *)

MaxKeys == 2
MaxTtl == 2
MaxStoreTime == 4

StoreKeys == 1..MaxKeys
StoreValues == {"v1", "v2"}
StoreTtls == (0..MaxTtl) \cup {None}
ABSENT == "absent"

StoreInit ==
    /\ storage = "memory"
    /\ probe = "ping_false"
    /\ redis_up = FALSE
    /\ now = 0
    /\ data = EmptyMap
    /\ expiry_times = EmptyMap
    /\ rdata = EmptyMap
    /\ rexpiry = EmptyMap
    /\ next_job = 1
    /\ job_in = [j \in JobIds |-> NoJob]
    /\ loop = Idle
    /\ task = [j \in JobIds |-> NoTask]
    /\ resp = NoResp
    /\ sets = [j \in JobIds |-> [vals |-> <<>>, at |-> 0]]
    /\ tmp = [j \in JobIds |-> "none"]
    /\ st_last = EmptyMap
    /\ st_ret = NoRet
    /\ stream = NoStream
    /\ out = <<>>
    /\ call = NoCall

(* InMemoryJobStorage.set, lines 72-75 *)
StoreSet(key, value, expiry) ==
    /\ data' = MemSetData(data, key, value)
    /\ expiry_times' = MemSetExpiry(expiry_times, key, expiry, now)
    /\ st_last' = Put(st_last, key, [value |-> value, expiry |-> expiry, t |-> now])
    /\ st_ret' = NoRet
    /\ UNCHANGED <<storage, probe, redis_up, now, rdata, rexpiry, next_job, job_in,
                   loop, task, resp, sets, tmp, stream, out, call>>

(* InMemoryJobStorage.get, lines 77-86 *)
StoreGet(key) ==
    /\ IF key \in DOMAIN data
       THEN IF MemExpired(expiry_times, key, now)
            THEN /\ data' = Del(data, key)
                 /\ expiry_times' = Del(expiry_times, key)
                 /\ st_ret' = [key |-> key, value |-> ABSENT, t |-> now]
            ELSE /\ st_ret' = [key |-> key, value |-> data[key], t |-> now]
                 /\ UNCHANGED <<data, expiry_times>>
       ELSE /\ st_ret' = [key |-> key, value |-> ABSENT, t |-> now]
            /\ UNCHANGED <<data, expiry_times>>
    /\ UNCHANGED <<storage, probe, redis_up, now, rdata, rexpiry, next_job, job_in,
                   loop, task, resp, sets, tmp, st_last, stream, out, call>>

StoreTick ==
    /\ now < MaxStoreTime
    /\ now' = now + 1
    /\ st_ret' = NoRet
    /\ UNCHANGED <<storage, probe, redis_up, data, expiry_times, rdata, rexpiry,
                   next_job, job_in, loop, task, resp, sets, tmp, st_last, stream, out, call>>

StoreNext ==
    \/ \E key \in StoreKeys, value \in StoreValues, expiry \in StoreTtls :
          StoreSet(key, value, expiry)
    \/ \E key \in StoreKeys : StoreGet(key)
    \/ StoreTick

StoreSpec == StoreInit /\ [][StoreNext]_vars

----------------------------------------------------------------------------
(* Markdown text.  A text is a sequence of runs [c |-> class, n |-> length], *)
(* n >= 1: "x" a character that is not whitespace, " " a blank, "\n" a line  *)
(* break.  The empty string is <<>>.                                         *)

Run(c, n) == [c |-> c, n |-> n]
IsWs(r) == r.c # "x"

(* len(s) *)
RECURSIVE TextLen(_)
TextLen(t) == IF t = <<>> THEN 0 ELSE t[1].n + TextLen(Tail(t))

(* s.strip() *)
strip(t) ==
    LET xs == {i \in 1..Len(t) : ~IsWs(t[i])} IN
    IF xs = {} THEN <<>>
    ELSE SubSeq(t, CHOOSE i \in xs : \A k \in xs : i <= k,
                   CHOOSE i \in xs : \A k \in xs : i >= k)

(* `not markdown or not markdown.strip()` *)
IsBlank(t) == t = <<>> \/ strip(t) = <<>>

(* the line breaks in a stretch of whitespace *)
RECURSIVE Newlines(_)
Newlines(ws) ==
    IF ws = <<>> THEN 0
    ELSE (IF ws[1].c = "\n" THEN ws[1].n ELSE 0) + Newlines(Tail(ws))

(* what \n\s*\n leaves of a stretch of whitespace with two line breaks or   *)
(* more: the blanks before its first line break, and those after its last   *)
BeforeFirstNewline(ws) ==
    SubSeq(ws, 1, (CHOOSE i \in 1..Len(ws) :
                      ws[i].c = "\n" /\ \A k \in 1..(i - 1) : ws[k].c # "\n") - 1)
AfterLastNewline(ws) ==
    SubSeq(ws, (CHOOSE i \in 1..Len(ws) :
                   ws[i].c = "\n" /\ \A k \in (i + 1)..Len(ws) : ws[k].c # "\n") + 1, Len(ws))

(* re.split(r'\n\s*\n', t), line 243: from run i on, with the piece `cur`    *)
(* under way and the whitespace `ws` met since its last other character     *)
RECURSIVE SplitFrom(_, _, _, _)
SplitFrom(t, i, cur, ws) ==
    IF i > Len(t)
    THEN IF Newlines(ws) >= 2
         THEN <<cur \o BeforeFirstNewline(ws), AfterLastNewline(ws)>>
         ELSE <<cur \o ws>>
    ELSE IF IsWs(t[i])
    THEN SplitFrom(t, i + 1, cur, Append(ws, t[i]))
    ELSE IF Newlines(ws) >= 2
    THEN <<cur \o BeforeFirstNewline(ws)>>
         \o SplitFrom(t, i + 1, Append(AfterLastNewline(ws), t[i]), <<>>)
    ELSE SplitFrom(t, i + 1, Append(cur \o ws, t[i]), <<>>)

re_split(t) == SplitFrom(t, 1, <<>>, <<>>)

(* lines 247-248 *)
max_chunk_size == 2000
min_chunk_size == 500

(* "\n" *)
BlankLine_OneBreak == <<Run("\n", 1)>>

(* "\n\n" *)
BlankLine == <<Run("\n", 2)>>

(* line 256: with the paragraph the chunk would be too large *)
TooLarge(current_chunk, paragraph) ==
    current_chunk # <<>>
    /\ TextLen(current_chunk \o BlankLine \o paragraph) > max_chunk_size

(* a chunk saved whatever its size *)
Substantial_Always(current_chunk) == TRUE

(* line 258: the chunk is substantial *)
Substantial(current_chunk) == TextLen(current_chunk) > min_chunk_size

(* lines 251-269: one turn of the loop, for the paragraph p *)
ChunkIteration(chunks, current_chunk, p) ==
    LET paragraph == strip(p) IN
    IF paragraph = <<>>
    THEN [chunks |-> chunks, current_chunk |-> current_chunk]
    ELSE IF TooLarge(current_chunk, paragraph)
    THEN IF Substantial(current_chunk)
         THEN [chunks |-> Append(chunks, strip(current_chunk)),
               current_chunk |-> paragraph]
         ELSE [chunks |-> chunks,
               current_chunk |-> current_chunk \o BlankLine \o paragraph]
    ELSE [chunks |-> chunks,
          current_chunk |-> IF current_chunk # <<>>
                            THEN current_chunk \o BlankLine \o paragraph
                            ELSE paragraph]

(* lines 271-275: the final chunk *)
ChunksAtEnd(chunks, current_chunk) ==
    IF strip(current_chunk) # <<>>
    THEN Append(chunks, strip(current_chunk))
    ELSE chunks

(* lines 250-275: the loop over the paragraphs from the i-th on *)
RECURSIVE ChunkLoop(_, _, _, _)
ChunkLoop(paragraphs, i, chunks, current_chunk) ==
    IF i > Len(paragraphs)
    THEN ChunksAtEnd(chunks, current_chunk)
    ELSE LET s == ChunkIteration(chunks, current_chunk, paragraphs[i])
         IN ChunkLoop(paragraphs, i + 1, s.chunks, s.current_chunk)

(* lines 234-275 *)
split_markdown_into_paragraphs(markdown) ==
    IF IsBlank(markdown) THEN <<>>
    ELSE ChunkLoop(re_split(strip(markdown)), 1, <<>>, <<>>)

(* a batch that is never closed *)
ClosesBatch_Never(current_batch, current_token_count, chunk_tokens, max_batch_size, max_tokens_per_batch) ==
    FALSE

(* a batch that is closed as soon as it has a chunk *)
ClosesBatch_Always(current_batch, current_token_count, chunk_tokens, max_batch_size, max_tokens_per_batch) ==
    current_batch # <<>>

(* lines 294-298: the current batch is closed before the chunk is added *)
ClosesBatch(current_batch, current_token_count, chunk_tokens, max_batch_size, max_tokens_per_batch) ==
    /\ \/ Len(current_batch) >= max_batch_size
       \/ (current_batch # <<>>
           /\ current_token_count + chunk_tokens > max_tokens_per_batch)
    /\ current_batch # <<>>

(* lines 290-305: one turn of the loop, for `chunk` *)
BatchIteration(batches, current_batch, current_token_count, chunk, max_batch_size, max_tokens_per_batch) ==
    LET chunk_tokens == TextLen(chunk) \div 4
        closes == ClosesBatch(current_batch, current_token_count, chunk_tokens,
                              max_batch_size, max_tokens_per_batch)
    IN [batches |-> IF closes THEN Append(batches, current_batch) ELSE batches,
        current_batch |-> Append(IF closes THEN <<>> ELSE current_batch, chunk),
        current_token_count |-> (IF closes THEN 0 ELSE current_token_count) + chunk_tokens]

(* the final batch left out *)
BatchesAtEnd_Dropped(batches, current_batch) == batches

(* lines 307-311: the final batch *)
BatchesAtEnd(batches, current_batch) ==
    IF current_batch # <<>> THEN Append(batches, current_batch) ELSE batches

(* lines 289-311: the loop over the chunks from the i-th on *)
RECURSIVE BatchLoop(_, _, _, _, _, _, _)
BatchLoop(chunks, i, batches, current_batch, current_token_count, max_batch_size, max_tokens_per_batch) ==
    IF i > Len(chunks)
    THEN BatchesAtEnd(batches, current_batch)
    ELSE LET s == BatchIteration(batches, current_batch, current_token_count, chunks[i],
                                 max_batch_size, max_tokens_per_batch)
         IN BatchLoop(chunks, i + 1, s.batches, s.current_batch, s.current_token_count,
                      max_batch_size, max_tokens_per_batch)

(* lines 277-311 *)
create_smart_batches(chunks, max_batch_size, max_tokens_per_batch) ==
    IF chunks = <<>> THEN <<>>
    ELSE BatchLoop(chunks, 1, <<>>, <<>>, 0, max_batch_size, max_tokens_per_batch)

----------------------------------------------------------------------------
(* stream_url_conversion, lines 313-371 *)

(* line 332 *)
STREAM_MAX_BATCH_SIZE == 32
STREAM_MAX_TOKENS_PER_BATCH == 8000

(* The texts the converter returns in the model: up to MaxRuns runs, each a  *)
(* stretch of other characters, of line breaks or of blanks                  *)
MaxRuns == 3
XLens == {1, 600, 20000}
NewlineLens == {1, 2}

Runs ==
    {Run("x", n) : n \in XLens} \cup {Run("\n", n) : n \in NewlineLens} \cup {Run(" ", 1)}

Texts ==
    {t \in UNION {[1..k -> Runs] : k \in 0..MaxRuns} :
        \A i \in 1..(Len(t) - 1) : t[i].c # t[i + 1].c}

(* the number of chunks given as the number of batches *)
MetadataMessage_ChunksAsBatches(url, chunks, batches) ==
    [type |-> "metadata", filename |-> OrUrlContent(basename(url)),
     total_chunks |-> Len(chunks), total_batches |-> Len(chunks)]

(* lines 337-343 *)
MetadataMessage(url, chunks, batches) ==
    [type |-> "metadata", filename |-> OrUrlContent(basename(url)),
     total_chunks |-> Len(chunks), total_batches |-> Len(batches)]

(* lines 346-354; batch_idx counts from 0 *)
BatchMessage(batches, batch_idx) ==
    [type |-> "batch", batch_index |-> batch_idx, chunks |-> batches[batch_idx + 1],
     chunk_count |-> Len(batches[batch_idx + 1]), total_batches |-> Len(batches)]

(* lines 357-361 *)
CompleteMessage(chunks) == [type |-> "complete", total_chunks |-> Len(chunks)]

(* lines 366-370 *)
ErrorMessage(error) == [type |-> "error", error |-> error]

(* line 325 *)
NoContentMessage == [error |-> "No content extracted from URL"]

(* json.dumps(message) + "\n" *)
Line(message) == json_dumps(message)

StreamInit ==
    /\ storage = "memory"
    /\ probe = "ping_false"
    /\ redis_up = FALSE
    /\ now = 0
    /\ data = EmptyMap
    /\ expiry_times = EmptyMap
    /\ rdata = EmptyMap
    /\ rexpiry = EmptyMap
    /\ next_job = 1
    /\ job_in = [j \in JobIds |-> NoJob]
    /\ loop = Idle
    /\ task = [j \in JobIds |-> NoTask]
    /\ resp = NoResp
    /\ sets = [j \in JobIds |-> [vals |-> <<>>, at |-> 0]]
    /\ tmp = [j \in JobIds |-> "none"]
    /\ st_last = EmptyMap
    /\ st_ret = NoRet
    /\ stream = NoStream
    /\ out = <<>>
    /\ call = NoCall

(* Up to the first yield, when md.convert_url raises: lines 317-321 and      *)
(* 365-370                                                                   *)
StreamConverterRaises(url) ==
    /\ stream.pc = "idle"
    /\ stream' = [stream EXCEPT !.pc = "yielded_error", !.url = url, !.res = "raised"]
    /\ out' = Append(out, Line(ErrorMessage(ERROR)))
    /\ UNCHANGED <<svc_vars, st_last, st_ret, call>>

(* Up to the first yield, when md.convert_url returns: lines 317-343 *)
StreamConverterReturns(url, markdown) ==
    /\ stream.pc = "idle"
    /\ IF IsBlank(markdown)
       THEN /\ stream' = [stream EXCEPT !.pc = "yielded_no_content", !.url = url,
                                        !.res = "returned", !.text = markdown]
            /\ out' = Append(out, Line(NoContentMessage))
       ELSE LET chunks == split_markdown_into_paragraphs(markdown)
                batches == create_smart_batches(chunks, STREAM_MAX_BATCH_SIZE,
                                                STREAM_MAX_TOKENS_PER_BATCH)
            IN /\ stream' = [pc |-> "batches", url |-> url, res |-> "returned",
                             text |-> markdown, chunks |-> chunks,
                             batches |-> batches, idx |-> 0]
               /\ out' = Append(out, Line(MetadataMessage(url, chunks, batches)))
    /\ UNCHANGED <<svc_vars, st_last, st_ret, call>>

(* The consumer asks for the next line and there is a batch left: lines 346-354 *)
StreamBatch ==
    /\ stream.pc = "batches"
    /\ stream.idx < Len(stream.batches)
    /\ out' = Append(out, Line(BatchMessage(stream.batches, stream.idx)))
    /\ stream' = [stream EXCEPT !.idx = @ + 1]
    /\ UNCHANGED <<svc_vars, st_last, st_ret, call>>

(* ... and there is none left: lines 357-361 *)
StreamComplete ==
    /\ stream.pc = "batches"
    /\ stream.idx = Len(stream.batches)
    /\ out' = Append(out, Line(CompleteMessage(stream.chunks)))
    /\ stream' = [stream EXCEPT !.pc = "yielded_complete"]
    /\ UNCHANGED <<svc_vars, st_last, st_ret, call>>

(* The consumer asks for a line after the last one: the generator returns,   *)
(* lines 326, 363 and 371                                                    *)
StreamReturn ==
    /\ stream.pc \in {"yielded_error", "yielded_no_content", "yielded_complete"}
    /\ stream' = [stream EXCEPT !.pc = "done"]
    /\ UNCHANGED <<svc_vars, st_last, st_ret, out, call>>

(* The consumer goes away: StreamingResponse (lines 441-448) closes the      *)
(* generator at the yield it waits in                                        *)
StreamDisconnect ==
    /\ stream.pc \in {"batches", "yielded_error", "yielded_no_content", "yielded_complete"}
    /\ stream' = [stream EXCEPT !.pc = "closed"]
    /\ UNCHANGED <<svc_vars, st_last, st_ret, out, call>>

StreamNext ==
    \/ \E url \in Urls : StreamConverterRaises(url)
    \/ \E url \in Urls, markdown \in Texts : StreamConverterReturns(url, markdown)
    \/ StreamBatch
    \/ StreamComplete
    \/ StreamReturn
    \/ StreamDisconnect

StreamSpec == StreamInit /\ [][StreamNext]_vars

----------------------------------------------------------------------------
(* create_smart_batches called directly, with every chunk sequence and every *)
(* pair of limits of a small range, and with the 50 chunks of 100 characters *)
(* under the limits of line 332                                              *)

MaxChunks == 4
ChunkLens == {0, 3, 4, 8}
BatchSizes == 0..3
TokenBudgets == (0 - 1)..3

(* a chunk of n characters *)
Chunk(n) == IF n = 0 THEN <<>> ELSE <<Run("x", n)>>

ChunkSeqs == UNION {[1..k -> {Chunk(n) : n \in ChunkLens}] : k \in 0..MaxChunks}

FiftyChunks == [i \in 1..50 |-> Chunk(100)]

BatchCall(chunks, max_batch_size, max_tokens_per_batch) ==
    [fn |-> "create_smart_batches", pc |-> "called", chunks |-> chunks,
     max_batch_size |-> max_batch_size, max_tokens_per_batch |-> max_tokens_per_batch,
     i |-> 0, batches |-> <<>>, current_batch |-> <<>>, current_token_count |-> 0]

BatchCalls ==
    {BatchCall(c, m, t) : c \in ChunkSeqs, m \in BatchSizes, t \in TokenBudgets}
    \cup {BatchCall(FiftyChunks, STREAM_MAX_BATCH_SIZE, STREAM_MAX_TOKENS_PER_BATCH)}

BatchInit ==
    /\ storage = "memory"
    /\ probe = "ping_false"
    /\ redis_up = FALSE
    /\ now = 0
    /\ data = EmptyMap
    /\ expiry_times = EmptyMap
    /\ rdata = EmptyMap
    /\ rexpiry = EmptyMap
    /\ next_job = 1
    /\ job_in = [j \in JobIds |-> NoJob]
    /\ loop = Idle
    /\ task = [j \in JobIds |-> NoTask]
    /\ resp = NoResp
    /\ sets = [j \in JobIds |-> [vals |-> <<>>, at |-> 0]]
    /\ tmp = [j \in JobIds |-> "none"]
    /\ st_last = EmptyMap
    /\ st_ret = NoRet
    /\ stream = NoStream
    /\ out = <<>>
    /\ call \in BatchCalls

(* lines 282-287: no chunks, no batches; or the locals before the loop *)
BatchBegin ==
    /\ call.fn = "create_smart_batches"
    /\ call.pc = "called"
    /\ call' = [call EXCEPT !.pc = IF call.chunks = <<>> THEN "returned" ELSE "loop",
                            !.i = 1]
    /\ UNCHANGED <<svc_vars, st_last, st_ret, stream, out>>

(* lines 289-305: one turn of the loop *)
BatchChunk ==
    /\ call.fn = "create_smart_batches"
    /\ call.pc = "loop"
    /\ call.i <= Len(call.chunks)
    /\ LET s == BatchIteration(call.batches, call.current_batch, call.current_token_count,
                               call.chunks[call.i], call.max_batch_size,
                               call.max_tokens_per_batch)
       IN call' = [call EXCEPT !.i = @ + 1, !.batches = s.batches,
                               !.current_batch = s.current_batch,
                               !.current_token_count = s.current_token_count]
    /\ UNCHANGED <<svc_vars, st_last, st_ret, stream, out>>

(* lines 307-311: the final batch, and the return of `batches` *)
BatchEnd ==
    /\ call.fn = "create_smart_batches"
    /\ call.pc = "loop"
    /\ call.i > Len(call.chunks)
    /\ call' = [call EXCEPT !.pc = "returned",
                            !.batches = BatchesAtEnd(call.batches, call.current_batch)]
    /\ UNCHANGED <<svc_vars, st_last, st_ret, stream, out>>

BatchNext ==
    \/ BatchBegin
    \/ BatchChunk
    \/ BatchEnd

BatchSpec == BatchInit /\ [][BatchNext]_vars

----------------------------------------------------------------------------
(* split_markdown_into_paragraphs called directly, with every text of a     *)
(* small range: paragraphs of 1, 500, 501 and 2000 characters               *)

MaxSplitRuns == 5
SplitXLens == {1, 500, 501, 2000}

SplitRuns ==
    {Run("x", n) : n \in SplitXLens} \cup {Run("\n", n) : n \in NewlineLens}
    \cup {Run(" ", 1)}

SplitTexts ==
    {t \in UNION {[1..k -> SplitRuns] : k \in 0..MaxSplitRuns} :
        \A i \in 1..(Len(t) - 1) : t[i].c # t[i + 1].c}

SplitCall(markdown) ==
    [fn |-> "split_markdown_into_paragraphs", pc |-> "called", markdown |-> markdown,
     paragraphs |-> <<>>, i |-> 0, chunks |-> <<>>, current_chunk |-> <<>>]

SplitInit ==
    /\ storage = "memory"
    /\ probe = "ping_false"
    /\ redis_up = FALSE
    /\ now = 0
    /\ data = EmptyMap
    /\ expiry_times = EmptyMap
    /\ rdata = EmptyMap
    /\ rexpiry = EmptyMap
    /\ next_job = 1
    /\ job_in = [j \in JobIds |-> NoJob]
    /\ loop = Idle
    /\ task = [j \in JobIds |-> NoTask]
    /\ resp = NoResp
    /\ sets = [j \in JobIds |-> [vals |-> <<>>, at |-> 0]]
    /\ tmp = [j \in JobIds |-> "none"]
    /\ st_last = EmptyMap
    /\ st_ret = NoRet
    /\ stream = NoStream
    /\ out = <<>>
    /\ call \in {SplitCall(markdown) : markdown \in SplitTexts}

(* lines 239-248: a blank text gives no chunk; or the paragraphs and the    *)
(* locals before the loop                                                   *)
SplitBegin ==
    /\ call.fn = "split_markdown_into_paragraphs"
    /\ call.pc = "called"
    /\ call' = IF IsBlank(call.markdown)
               THEN [call EXCEPT !.pc = "returned"]
               ELSE [call EXCEPT !.pc = "loop", !.i = 1,
                                 !.paragraphs = re_split(strip(call.markdown))]
    /\ UNCHANGED <<svc_vars, st_last, st_ret, stream, out>>

(* lines 250-269: one turn of the loop *)
SplitParagraph ==
    /\ call.fn = "split_markdown_into_paragraphs"
    /\ call.pc = "loop"
    /\ call.i <= Len(call.paragraphs)
    /\ LET s == ChunkIteration(call.chunks, call.current_chunk, call.paragraphs[call.i])
       IN call' = [call EXCEPT !.i = @ + 1, !.chunks = s.chunks,
                               !.current_chunk = s.current_chunk]
    /\ UNCHANGED <<svc_vars, st_last, st_ret, stream, out>>

(* lines 271-275: the final chunk, and the return of `chunks` *)
SplitEnd ==
    /\ call.fn = "split_markdown_into_paragraphs"
    /\ call.pc = "loop"
    /\ call.i > Len(call.paragraphs)
    /\ call' = [call EXCEPT !.pc = "returned",
                            !.chunks = ChunksAtEnd(call.chunks, call.current_chunk)]
    /\ UNCHANGED <<svc_vars, st_last, st_ret, stream, out>>

SplitNext ==
    \/ SplitBegin
    \/ SplitParagraph
    \/ SplitEnd

SplitSpec == SplitInit /\ [][SplitNext]_vars

----------------------------------------------------------------------------
(* What the claims speak of *)

Terminal == {"completed", "failed"}

(* The statuses written under job:<j>, in order *)
Statuses(j) == [i \in 1..Len(sets[j].vals) |-> sets[j].vals[i].status]

(* The record the selected backend holds under job:<j> *)
Held(j) == IF UseRedis THEN j \in DOMAIN rdata ELSE j \in DOMAIN data
HeldRecord(j) == json_loads(IF UseRedis THEN rdata[j] ELSE data[j])

(* The TTL of the record held has elapsed *)
TtlElapsed(j) ==
    IF UseRedis THEN ~RedisLive(j, now) ELSE MemExpired(expiry_times, j, now)

----------------------------------------------------------------------------
(* C1: the statuses written under a job id are "processing" first and then  *)
(* at most a move to "completed" or to "failed": no write follows a         *)
(* terminal status with another status, none writes "processing" again,     *)
(* and the record held is the one written last.                             *)
C1_StatusOnlyMovesForward ==
    \A j \in JobIds :
        LET s == Statuses(j) IN
        /\ Len(s) >= 1 => s[1] = "processing"
        /\ \A i \in 2..Len(s) :
              /\ s[i] # "processing"
              /\ s[i - 1] = "processing" \/ s[i] = s[i - 1]
        /\ Held(j) => Len(s) >= 1 /\ HeldRecord(j).status = s[Len(s)]

C1_Witness ==
    \E j \in JobIds :
        /\ Statuses(j) = <<"processing", "failed">>
        /\ task[j].pc = "done"

(* C2, as claimed: a status query answered after the job id was returned    *)
(* and before the task wrote its terminal record gives a processing record. *)
C2_ProcessingUntilTerminal ==
    ( /\ resp.op = "get"
      /\ resp.kind \in {"record", "404"}
      /\ task[resp.job].pc # "none"
      /\ Len(sets[resp.job].vals) = 1 )
    => (resp.kind = "record" /\ resp.body.status = "processing")

(* C2, amended: ... and while fewer than JOB_EXPIRY seconds have passed     *)
(* since the initial record was written, a status query the store answers   *)
(* gives a processing record.                                               *)
C2_ProcessingWithinTtl ==
    ( /\ resp.op = "get"
      /\ resp.kind \in {"record", "404"}
      /\ task[resp.job].pc # "none"
      /\ Len(sets[resp.job].vals) = 1
      /\ now < sets[resp.job].at + JOB_EXPIRY )
    => (resp.kind = "record" /\ resp.body.status = "processing")

C2_Witness ==
    /\ resp.op = "get"
    /\ resp.kind = "record"
    /\ resp.body.status = "processing"
    /\ task[resp.job].pc \in {"queued", "try_set", "exc_set"}
    /\ now > 0

(* C3: a status query for a job id that was never created, or whose record  *)
(* was past its TTL when the query began, is answered NotFound: whenever a  *)
(* record is returned, the job was created and the query began no later     *)
(* than JOB_EXPIRY seconds after the set that stored the record (or that    *)
(* set has not returned yet).                                               *)
C3_NotFoundWhenAbsentOrExpired ==
    (resp.op = "get" /\ resp.kind = "record")
    => /\ Len(sets[resp.job].vals) >= 1
       /\ \/ task[resp.job].pc = "set_expiry"
          \/ resp.t0 <= sets[resp.job].at + JOB_EXPIRY

(* C4: a job whose initial record was written eventually has a record with  *)
(* a terminal status, or no live record.                                    *)
LeftProcessing(j) ==
    \/ ~Held(j)
    \/ HeldRecord(j).status \in Terminal
    \/ TtlElapsed(j)

C4_EventuallyLeavesProcessing ==
    \A j \in JobIds : (Len(sets[j].vals) >= 1) ~> LeftProcessing(j)

C4_Witness ==
    \E j \in JobIds :
        /\ task[j].pc = "raised"
        /\ Held(j)
        /\ HeldRecord(j).status = "processing"
        /\ TtlElapsed(j)

(* C5: every record stored has the converted text iff its status is         *)
(* completed and the error message iff its status is failed.                *)
ResultIffCompleted(r) ==
    /\ ("markdown" \in DOMAIN r) <=> (r.status = "completed")
    /\ ("error" \in DOMAIN r) <=> (r.status = "failed")

C5_ResultAndErrorByStatus ==
    \A j \in JobIds :
        /\ \A i \in 1..Len(sets[j].vals) : ResultIffCompleted(sets[j].vals[i])
        /\ Held(j) => ResultIffCompleted(HeldRecord(j))

C5_Witness ==
    \E j \in JobIds :
        /\ Held(j)
        /\ HeldRecord(j).status = "failed"
        /\ Len(sets[j].vals) = 2

(* C6: every record stored for a job carries the filename of the job's      *)
(* initial record.                                                          *)
C6_FilenameImmutable ==
    \A j \in JobIds :
        \A i \in 1..Len(sets[j].vals) :
            /\ "filename" \in DOMAIN sets[j].vals[i]
            /\ sets[j].vals[i].filename = sets[j].vals[1].filename

(* C7: on the local backend, a get returns the value of the latest set of   *)
(* the key while no more than that set's ttl seconds have passed since it,  *)
(* and absent, with the entry purged, once more have passed.                *)
C7_SetResetsExpiry ==
    (st_ret.key \in DOMAIN st_last /\ st_last[st_ret.key].expiry # None)
    => LET s == st_last[st_ret.key] IN
       IF st_ret.t <= s.t + s.expiry
       THEN st_ret.value = s.value
       ELSE st_ret.value = ABSENT /\ st_ret.key \notin DOMAIN data

(* C8: on the local backend no get or set raises, and the value of the      *)
(* latest set of a key is there as long as its ttl has not elapsed.         *)
C8_LocalBackendThreadSafe ==
    /\ resp.kind # "KeyError"
    /\ \A j \in JobIds :
          ( /\ storage = "memory"
            /\ Len(sets[j].vals) >= 1
            /\ now <= sets[j].at + JOB_EXPIRY )
          => (j \in DOMAIN data /\ json_loads(data[j]) = sets[j].vals[Len(sets[j].vals)])

(* C9: the backend is selected once: when the construction of the durable   *)
(* backend failed or its ping was false, the local backend is selected,     *)
(* every set and get goes to it and none raises; and once selected, the     *)
(* backend never changes.                                                   *)
FellBack == probe \in {"ctor_failed", "ping_false"}

LocalOnly ==
    /\ storage = "memory"
    /\ rdata = EmptyMap
    /\ rexpiry = EmptyMap
    /\ resp.via # "redis"
    /\ resp.kind # "KeyError"
    /\ \A j \in JobIds : task[j].pc \notin {"raised", "cleanup_raised"}

C9_BackendSelectedOnce ==
    /\ [](FellBack => LocalOnly)
    /\ [][storage # "unset" => storage' = storage]_vars

C9_Witness ==
    /\ probe = "ping_false"
    /\ redis_up
    /\ resp.op = "get"
    /\ resp.kind = "record"
    /\ resp.via = "memory"

(* The type of a line, "untyped" when the object has no type field *)
TypeOf(line) == IF "type" \in DOMAIN line.json THEN line.json.type ELSE "untyped"

(* metadata once and first, the batches in ascending batch_index order,     *)
(* nothing after a terminal message; and a generator that returned has      *)
(* ended with a terminal message                                            *)
StreamWellOrdered ==
    /\ \A i \in 1..Len(out) :
          /\ TypeOf(out[i]) \in {"metadata", "batch", "complete", "error"}
          /\ (i = 1) <=> (TypeOf(out[i]) = "metadata")
          /\ TypeOf(out[i]) \in {"complete", "error"} => i = Len(out)
          /\ \A k \in (i + 1)..Len(out) :
                (TypeOf(out[i]) = "batch" /\ TypeOf(out[k]) = "batch")
                => out[i].json.batch_index < out[k].json.batch_index
    /\ stream.pc = "done" => TypeOf(out[Len(out)]) \in {"complete", "error"}

(* C10: in a streaming response in which the converter returned, whatever   *)
(* the text (empty and whitespace-only included), the metadata message is   *)
(* emitted once and first, the batch messages follow in ascending           *)
(* batch_index order, and one terminal message (complete or error) ends     *)
(* the response.                                                            *)
C10_StreamOrder ==
    (stream.res = "returned" /\ out # <<>>) => StreamWellOrdered

(* What the generator does: the order holds for a text that is not blank;   *)
(* for a blank one the response is the single no-content object, which has  *)
(* no type field, and no metadata message.                                  *)
StreamOrderOfContent ==
    (stream.res = "returned" /\ out # <<>>)
    => IF IsBlank(stream.text)
       THEN out = <<Line(NoContentMessage)>>
       ELSE StreamWellOrdered

(* a response of two batches, read to its end *)
StreamTwoBatches ==
    /\ stream.pc = "done"
    /\ stream.res = "returned"
    /\ Len(out) = 4
    /\ TypeOf(out[2]) = "batch"
    /\ TypeOf(out[3]) = "batch"

(* C11: every line the generator yields, whatever the converter did, is an  *)
(* object with a type field whose value is metadata, batch, complete or     *)
(* error.                                                                   *)
C11_EveryLineTyped ==
    \A i \in 1..Len(out) :
        /\ "type" \in DOMAIN json_loads(out[i])
        /\ json_loads(out[i]).type \in {"metadata", "batch", "complete", "error"}

(* The estimate of line 291, and its sum over a batch *)
EstimatedTokens(chunk) == TextLen(chunk) \div 4

BatchTokens(batch) ==
    LET sum[k \in 0..Len(batch)] ==
            IF k = 0 THEN 0 ELSE sum[k - 1] + EstimatedTokens(batch[k])
    IN sum[Len(batch)]

BatchesReturned == call.fn = "create_smart_batches" /\ call.pc = "returned"

WithinLimits(batch) ==
    /\ Len(batch) <= call.max_batch_size
    /\ \/ BatchTokens(batch) <= call.max_tokens_per_batch
       \/ Len(batch) = 1 /\ EstimatedTokens(batch[1]) > call.max_tokens_per_batch

(* C12, for all values of the limits: every batch returned has at most      *)
(* max_batch_size chunks and an estimated-token sum of at most              *)
(* max_tokens_per_batch, unless it is one chunk whose own estimate exceeds  *)
(* the budget.                                                              *)
C12_BatchesWithinLimits ==
    BatchesReturned => \A i \in 1..Len(call.batches) : WithinLimits(call.batches[i])

(* C12, for max_batch_size >= 1 and all values of max_tokens_per_batch:     *)
(* every batch returned has at most max_batch_size chunks and an            *)
(* estimated-token sum of at most max_tokens_per_batch, unless it is one    *)
(* chunk whose own estimate exceeds the budget.                             *)
C12_BatchesWithinPositiveLimits ==
    (BatchesReturned /\ call.max_batch_size >= 1)
    => \A i \in 1..Len(call.batches) : WithinLimits(call.batches[i])

(* a batch closed by the count limit, one closed by the budget, and one     *)
(* chunk over the budget on its own                                         *)
C12_Witness ==
    /\ BatchesReturned
    /\ call.max_batch_size = 2
    /\ call.max_tokens_per_batch = 1
    /\ Len(call.batches) = 3
    /\ Len(call.batches[1]) = 2
    /\ Len(call.batches[2]) = 1 /\ BatchTokens(call.batches[2]) = 1
    /\ Len(call.batches[3]) = 1 /\ BatchTokens(call.batches[3]) = 2

(* The chunks of the batches, in order *)
Flatten(batches) ==
    LET flat[k \in 0..Len(batches)] ==
            IF k = 0 THEN <<>> ELSE flat[k - 1] \o batches[k]
    IN flat[Len(batches)]

(* C13: for every chunk sequence and all limits, the batches returned are   *)
(* non-empty and their chunks, in order, are exactly the chunks given.      *)
C13_BatchesPartitionChunks ==
    BatchesReturned
    => /\ \A i \in 1..Len(call.batches) : call.batches[i] # <<>>
       /\ Flatten(call.batches) = call.chunks

(* four chunks, one of them over the budget on its own, in several batches *)
C13_Witness ==
    /\ BatchesReturned
    /\ Len(call.chunks) = 4
    /\ Len(call.batches) >= 2
    /\ \E i \in 1..Len(call.chunks) :
          EstimatedTokens(call.chunks[i]) > call.max_tokens_per_batch
    /\ \E i \in 1..Len(call.batches) : Len(call.batches[i]) >= 2

(* Every batch but the last is full, or the first chunk of the next did not *)
(* fit its budget; and when the estimates of all the chunks together are    *)
(* within the budget, n chunks give ceil(n / max_batch_size) batches, all   *)
(* of max_batch_size chunks but possibly the last                           *)
GreedyMaximal ==
    LET n == Len(call.chunks)
        m == call.max_batch_size
        k == Len(call.batches)
    IN /\ \A i \in 1..(k - 1) :
             \/ Len(call.batches[i]) = m
             \/ BatchTokens(call.batches[i]) + EstimatedTokens(call.batches[i + 1][1])
                    > call.max_tokens_per_batch
       /\ (m >= 1 /\ BatchTokens(call.chunks) <= call.max_tokens_per_batch)
          => /\ k = (n + m - 1) \div m
             /\ \A i \in 1..(k - 1) : Len(call.batches[i]) = m
             /\ k >= 1 => Len(call.batches[k]) = n - (k - 1) * m

(* C19, for all limits: the batches returned are greedy-maximal.            *)
C19_GreedyMaximal ==
    BatchesReturned => GreedyMaximal

(* C19, for max_batch_size >= 1: the batches returned are greedy-maximal.   *)
C19_GreedyMaximalForPositiveSize ==
    (BatchesReturned /\ call.max_batch_size >= 1) => GreedyMaximal

(* 50 chunks of 100 characters under the limits 32 and 8000: 32 and 18 *)
C19_Witness ==
    /\ BatchesReturned
    /\ Len(call.chunks) = 50
    /\ call.max_batch_size = 32
    /\ Len(call.batches) = 2
    /\ Len(call.batches[1]) = 32
    /\ Len(call.batches[2]) = 18

ChunksReturned == call.fn = "split_markdown_into_paragraphs" /\ call.pc = "returned"

(* The non-empty trimmed paragraphs of a text, in order *)
TrimmedParagraphs(text) ==
    IF IsBlank(text) THEN <<>>
    ELSE LET pieces == re_split(strip(text))
             trimmed == [k \in 1..Len(pieces) |-> strip(pieces[k])]
         IN SelectSeq(trimmed, LAMBDA q : q # <<>>)

(* Texts joined by "\n\n" *)
JoinedByBlankLines(texts) ==
    LET joined[k \in 0..Len(texts)] ==
            IF k = 0 THEN <<>>
            ELSE IF k = 1 THEN texts[1]
            ELSE joined[k - 1] \o <<Run("\n", 2)>> \o texts[k]
    IN joined[Len(texts)]

(* The paragraphs of each chunk, chunk after chunk *)
ParagraphsOfChunks(chunks) ==
    LET flat[k \in 0..Len(chunks)] ==
            IF k = 0 THEN <<>> ELSE flat[k - 1] \o TrimmedParagraphs(chunks[k])
    IN flat[Len(chunks)]

(* C14: the chunks returned, in order and joined by blank lines, are the    *)
(* non-empty trimmed paragraphs of the text in their order, each whole in   *)
(* one chunk; a blank text gives no chunk.                                  *)
C14_ChunksKeepParagraphs ==
    ChunksReturned
    => /\ ParagraphsOfChunks(call.chunks) = TrimmedParagraphs(call.markdown)
       /\ JoinedByBlankLines(call.chunks)
             = JoinedByBlankLines(TrimmedParagraphs(call.markdown))
       /\ \A i \in 1..Len(call.chunks) : call.chunks[i] # <<>>
       /\ IsBlank(call.markdown) => call.chunks = <<>>

(* three paragraphs in two chunks, in a text with whitespace around it *)
C14_Witness ==
    /\ ChunksReturned
    /\ Len(TrimmedParagraphs(call.markdown)) = 3
    /\ Len(call.chunks) = 2
    /\ Len(TrimmedParagraphs(call.chunks[1])) = 2

(* C15: for a text of more than 500 characters, every chunk returned but    *)
(* the last has at least 500 characters.                                    *)
C15_ChunksReachMinimum ==
    (ChunksReturned /\ TextLen(call.markdown) > 500)
    => \A i \in 1..(Len(call.chunks) - 1) : TextLen(call.chunks[i]) >= 500

(* a chunk of one character that grew past 2000 instead of being emitted,   *)
(* and was emitted then                                                     *)
C15_Witness ==
    /\ ChunksReturned
    /\ Len(call.chunks) = 2
    /\ call.paragraphs[1] = <<Run("x", 1)>>
    /\ TextLen(call.chunks[1]) > 2000

(* C18: when the next paragraph, joined by a blank line, would make a       *)
(* non-empty running chunk longer than 2000 characters, the running chunk   *)
(* is emitted and the paragraph starts the next one iff the running chunk   *)
(* has at least 500 characters; otherwise the paragraph is appended.        *)
C18_EmitsFromMinimumOn ==
    [][ ( /\ call.fn = "split_markdown_into_paragraphs"
          /\ call.pc = "loop"
          /\ call.i <= Len(call.paragraphs)
          /\ call.current_chunk # <<>>
          /\ strip(call.paragraphs[call.i]) # <<>>
          /\ TextLen(call.current_chunk) + 2 + TextLen(strip(call.paragraphs[call.i])) > 2000 )
        => IF TextLen(call.current_chunk) >= 500
           THEN /\ call'.chunks = Append(call.chunks, call.current_chunk)
                /\ call'.current_chunk = strip(call.paragraphs[call.i])
           ELSE /\ call'.chunks = call.chunks
                /\ call'.current_chunk
                      = call.current_chunk \o <<Run("\n", 2)>> \o strip(call.paragraphs[call.i])
      ]_vars

(* The steps of process_file's finally *)
CleanupStep(j) ==
    /\ task[j].pc \in {"cleanup", "cleanup_raised"}
    /\ task'[j].pc \notin {"cleanup", "cleanup_raised"}

(* C16: a process_file that has ended, whether the conversion succeeded or  *)
(* failed, has attempted the removal of its temporary file; and the         *)
(* cleanup, failed or not, leaves every stored record as it was.            *)
C16_CleanupAlwaysAndHarmless ==
    /\ [](\A j \in JobIds :
             (job_in[j].kind = "file" /\ task[j].pc \in {"done", "raised"})
             => tmp[j] \in {"removed", "left"})
    /\ [][\A j \in JobIds :
             CleanupStep(j) => UNCHANGED <<data, expiry_times, rdata, rexpiry, sets>>]_vars

(* a failed conversion whose cleanup failed as well, the failed record held *)
C16_Witness ==
    \E j \in JobIds :
        /\ job_in[j].kind = "file"
        /\ task[j].pc = "done"
        /\ tmp[j] = "left"
        /\ Held(j)
        /\ HeldRecord(j).status = "failed"

(* The steps of a get_job_status on the event loop *)
StatusQueryStep == loop.op = "get" /\ loop' # loop

(* The value and the expiry the selected backend holds for job:<j> *)
StoredValue(d, j) == IF j \in DOMAIN d THEN d[j] ELSE NoVal
StoredExpiry(et, j) == IF j \in DOMAIN et THEN et[j] ELSE None

(* C17: a status query leaves the stored value and the expiry of every job  *)
(* whose TTL has not elapsed as they were.                                  *)
C17_StatusQueriesDoNotMutate ==
    [][StatusQueryStep
       => \A j \in JobIds :
             (Held(j) /\ ~TtlElapsed(j))
             => /\ StoredValue(data', j) = StoredValue(data, j)
                /\ StoredExpiry(expiry_times', j) = StoredExpiry(expiry_times, j)
                /\ StoredValue(rdata', j) = StoredValue(rdata, j)
                /\ StoredExpiry(rexpiry', j) = StoredExpiry(rexpiry, j)]_vars

(* The batch messages of a response: its lines but the first and the last *)
BatchLines == [i \in 1..(Len(out) - 2) |-> json_loads(out[i + 1])]

ChunkCountSum(lines) ==
    LET sum[k \in 0..Len(lines)] ==
            IF k = 0 THEN 0 ELSE sum[k - 1] + lines[k].chunk_count
    IN sum[Len(lines)]

(* C20: in a response that ends with a complete message, the number of      *)
(* batch messages is the total_batches of the metadata and of every batch   *)
(* message, the batch_index values are 0, 1, ... in order, each chunk_count *)
(* is the number of chunks carried, and the chunk_count values add up to    *)
(* the total_chunks of the metadata and of the complete message.            *)
C20_CountsAgree ==
    (out # <<>> /\ TypeOf(out[Len(out)]) = "complete")
    => LET metadata == json_loads(out[1])
           completion == json_loads(out[Len(out)])
       IN /\ Len(out) >= 2
          /\ metadata.type = "metadata"
          /\ metadata.total_batches = Len(BatchLines)
          /\ \A i \in 1..Len(BatchLines) :
                /\ BatchLines[i].type = "batch"
                /\ BatchLines[i].batch_index = i - 1
                /\ BatchLines[i].total_batches = Len(BatchLines)
                /\ BatchLines[i].chunk_count = Len(BatchLines[i].chunks)
          /\ ChunkCountSum(BatchLines) = metadata.total_chunks
          /\ ChunkCountSum(BatchLines) = completion.total_chunks

(* a complete response of one batch of two chunks *)
C20_Witness ==
    /\ out # <<>>
    /\ TypeOf(out[Len(out)]) = "complete"
    /\ json_loads(out[1]).total_chunks = 2
    /\ json_loads(out[1]).total_batches = 1
    /\ Len(out) = 3

====
